---- MODULE Spec2Model ----
(***************************************************************************)
(* Payment-state reconciliation of the cotton_nest backend: order          *)
(* creation, client payment verification, gateway webhooks, admin status   *)
(* updates and refunds, acting on the Order collection.                    *)
(*                                                                         *)
(* Amounts are whole rupees (paise where a value crosses the gateway       *)
(* boundary).  A request handler runs in the steps the event loop gives    *)
(* it: everything up to the resolution of its Order.findOne / findById     *)
(* (one step, which ends the request when it answers early), and the       *)
(* order.save() with the code that follows it (a second step; for          *)
(* verifyPayment the write and the code after it are two steps).  Requests *)
(* interleave between these steps.                                         *)
(***************************************************************************)
EXTENDS Integers, Sequences, FiniteSets, TLC

(* ---------------------------- bounds ----------------------------------- *)
\* Orders the store may hold.
MaxOrders == 1
\* Requests served in one behaviour.
MaxRequests == 4
\* Requests that may be between their find and their save at once.
MaxInflight == 2

(* ------------------------ config/constants.js -------------------------- *)
ORDER_STATUS ==
  {"pending", "processing", "confirmed", "shipped", "delivered", "cancelled", "failed"}

PAYMENT_STATUS == {"pending", "success", "failed", "refunded"}

FREE_THRESHOLD == 999

STANDARD == 99

\* TAX_RATE is 0.18; the model keeps it as a percentage.
TAX_RATE_PERCENT == 18

\* Paise in a rupee, the factor of every "* 100" in the source.
PAISE == 100

(* ------------------------------ inputs --------------------------------- *)
None == "none"

PaymentIds == {"pay_1", "pay_2"}

\* Gateway order ids a request may name; MaxOrders + 1 is never issued.
OrderIdInputs == 1 .. (MaxOrders + 1)

\* amount of req.body.
Amounts == {900}

\* amount of req.body where pricing is examined: small amounts (25 has a
\* tax of 4.5 before rounding) and both sides of the free-shipping threshold.
PricingAmounts == (1 .. 40) \cup (890 .. 910) \cup (990 .. 1010)

\* Sum over req.body.items of price * quantity, as an offset from amount:
\* validateOrderCreation does not tie the two together.
ItemsOffsets == {100}

PricingOffsets == {0, 100}

KEY_SECRET == "RAZORPAY_KEY_SECRET"

WEBHOOK_SECRET == "RAZORPAY_WEBHOOK_SECRET"

(* ------------------------------ helpers -------------------------------- *)
\* Math.round on a non-negative rational n/d: floor(n/d + 1/2).
MathRound(n, d) == (2 * n + d) \div (2 * d)

\* crypto.createHmac('sha256', key).update(body).digest('hex'): distinct
\* (key, body) pairs give distinct digests.
HmacSha256(key, body) == <<"hmac-sha256", key, body>>

\* razorpayOrderId + "|" + razorpayPaymentId
SignedBody(oid, pid) == <<oid, "|", pid>>

\* IsAuthentic with the payment id left out of what is compared.
IsAuthenticAnyPayment(oid, pid, sig) ==
  \E p \in PaymentIds : HmacSha256(KEY_SECRET, SignedBody(oid, p)) = sig

\* RazorpayService.verifyPayment(...).isAuthentic
IsAuthentic(oid, pid, sig) == HmacSha256(KEY_SECRET, SignedBody(oid, pid)) = sig

\* Signatures a verification request may carry for (oid, pid): the gateway's
\* own, one computed over another payment id, one made with another key.
SignatureInputs(oid, pid) ==
  {HmacSha256(KEY_SECRET, SignedBody(oid, pid))}
    \cup {HmacSha256(KEY_SECRET, SignedBody(oid, p)) : p \in PaymentIds \ {pid}}
    \cup {HmacSha256("attacker_key", SignedBody(oid, pid))}

VARIABLES
  orders,    \* the Order collection: a sequence, _id = position
  inflight,  \* requests between their find and their save (n tells equal ones apart)
  mail,      \* emails handed to the EmailService, per order and template
  gateway,   \* calls made on the gateway SDK
  resp,      \* the response most recently sent
  nreq,      \* requests received so far
  log        \* the last console line of the request most recently answered

vars == <<orders, inflight, mail, gateway, resp, nreq, log>>

(* --------------------------- Order documents --------------------------- *)
NoShipping ==
  [trackingNumber |-> None, carrier |-> None,
   estimatedDelivery |-> FALSE, deliveredAt |-> FALSE]

\* A document that stands for "no document" in an idle request slot.
NoDoc ==
  [razorpayOrderId |-> 0, razorpayPaymentId |-> None,
   subtotal |-> 0, shippingCharges |-> 0, taxAmount |-> 0,
   discountAmount |-> 0, totalAmount |-> 0,
   paymentStatus |-> "pending", status |-> "pending",
   shipping |-> NoShipping, adminNotes |-> <<>>]

\* PreSaveNew without the second recomputation.
PreSaveNewSubtotalOnly(doc, itemsTotal) == [doc EXCEPT !.subtotal = itemsTotal]

\* orderSchema.pre('save') on a new document: every path given to the
\* constructor counts as modified, so subtotal is recomputed from the
\* items and totalAmount from the four pricing fields.
PreSaveNew(doc, itemsTotal) ==
  LET d1 == [doc EXCEPT !.subtotal = itemsTotal]
  IN  [d1 EXCEPT !.totalAmount =
         d1.subtotal + d1.shippingCharges + d1.taxAmount - d1.discountAmount]

\* SaveLoaded with the whole document of the request written back.
SaveLoadedWholeDocument(stored, loaded, doc) == doc

\* SaveLoaded with the notes written as the request's whole array.
SaveLoadedNotesOverwritten(stored, loaded, doc) ==
  [stored EXCEPT
     !.razorpayPaymentId =
        IF doc.razorpayPaymentId # loaded.razorpayPaymentId
        THEN doc.razorpayPaymentId ELSE @,
     !.paymentStatus =
        IF doc.paymentStatus # loaded.paymentStatus THEN doc.paymentStatus ELSE @,
     !.status = IF doc.status # loaded.status THEN doc.status ELSE @,
     !.shipping =
        [f \in DOMAIN @ |->
           IF doc.shipping[f] # loaded.shipping[f] THEN doc.shipping[f] ELSE @[f]],
     !.adminNotes = doc.adminNotes]

\* order.save() of a loaded document: Mongoose writes the paths whose value
\* differs from the loaded one and $push-es the notes added since the load.
\* No pricing path is modified by any handler, so the pre-save hook leaves
\* subtotal and totalAmount alone.
SaveLoaded(stored, loaded, doc) ==
  [stored EXCEPT
     !.razorpayPaymentId =
        IF doc.razorpayPaymentId # loaded.razorpayPaymentId
        THEN doc.razorpayPaymentId ELSE @,
     !.paymentStatus =
        IF doc.paymentStatus # loaded.paymentStatus THEN doc.paymentStatus ELSE @,
     !.status = IF doc.status # loaded.status THEN doc.status ELSE @,
     !.shipping =
        [f \in DOMAIN @ |->
           IF doc.shipping[f] # loaded.shipping[f] THEN doc.shipping[f] ELSE @[f]],
     !.adminNotes =
        @ \o SubSeq(doc.adminNotes, Len(loaded.adminNotes) + 1, Len(doc.adminNotes))]

\* Order.findOne({ razorpayOrderId }): the _id of the match, 0 for null.
FindByOrderId(oid) ==
  IF \E i \in 1 .. Len(orders) : orders[i].razorpayOrderId = oid
  THEN CHOOSE i \in 1 .. Len(orders) :
         /\ orders[i].razorpayOrderId = oid
         /\ \A j \in 1 .. (i - 1) : orders[j].razorpayOrderId # oid
  ELSE 0

\* FindByPaymentId with the filter dropped: the first Order there is.
FindFirst(pid) == IF Len(orders) > 0 THEN 1 ELSE 0

\* Order.findOne({ razorpayPaymentId }): the first match in natural order.
FindByPaymentId(pid) ==
  IF \E i \in 1 .. Len(orders) : orders[i].razorpayPaymentId = pid
  THEN CHOOSE i \in 1 .. Len(orders) :
         /\ orders[i].razorpayPaymentId = pid
         /\ \A j \in 1 .. (i - 1) : orders[j].razorpayPaymentId # pid
  ELSE 0

(* --------------------------- models/Order.js --------------------------- *)
\* enum of the status path of orderSchema in models/Order.js.
statusEnum == {"pending", "processing", "completed", "failed", "cancelled"}

\* enum of the paymentStatus path of orderSchema in models/Order.js.
paymentStatusEnum == {"pending", "success", "failed"}

(* ------------------------------ requests ------------------------------- *)
\* totalAmount: the field of that name in a 201 of createOrder.
Response(kind, code) == [kind |-> kind, code |-> code, totalAmount |-> 0]

NoMail == [orderConfirmation |-> 0, paymentSuccess |-> 0, shippingUpdate |-> 0]

\* orderAmount: options.amount of the latest orders.create call (0: none);
\* refunds: the payments.refund calls, in order.
NoGateway == [orderAmount |-> 0, refunds |-> <<>>]

Init ==
  /\ orders = <<>>
  /\ inflight = {}
  /\ mail = <<>>
  /\ gateway = NoGateway
  /\ resp = Response("none", 0)
  /\ nreq = 0
  /\ log = None

\* A request is received.
Receive ==
  /\ nreq < MaxRequests
  /\ nreq' = nreq + 1

\* The request answers without having loaded an Order for update.
Answer(kind, code) ==
  /\ resp' = Response(kind, code)
  /\ log' = None
  /\ UNCHANGED <<orders, inflight, mail>>

\* The same, the request having written `line` to the console.
AnswerLogged(kind, code, line) ==
  /\ resp' = Response(kind, code)
  /\ log' = line
  /\ UNCHANGED <<orders, inflight, mail>>

\* The request has loaded Order `id`, changed its copy to `doc` and called
\* order.save(): it waits for the write.
AwaitSave(kind, id, doc) ==
  /\ Cardinality(inflight) < MaxInflight
  /\ LET req(k) == [n |-> k, kind |-> kind, id |-> id, loaded |-> orders[id],
                    doc |-> doc, saved |-> FALSE]
         n == CHOOSE k \in 1 .. MaxInflight :
                /\ req(k) \notin inflight
                /\ \A j \in 1 .. (k - 1) : req(j) \in inflight
     IN  inflight' = inflight \cup {req(n)}
  /\ UNCHANGED <<orders, mail, resp, log>>

\* The write of request r reaches the store.
Written(r) ==
  orders' = [orders EXCEPT ![r.id] = SaveLoaded(@, r.loaded, r.doc)]

\* emailService.send<template>(order): handed over, not awaited.
Send(id, template) == mail' = [mail EXCEPT ![id][template] = @ + 1]

Release(r) == inflight' = inflight \ {r}

\* An adminNotes entry; ref is the refund id the text quotes (0: none).
Note(text, ref, addedBy) == [note |-> text, ref |-> ref, addedBy |-> addedBy]

(* ------------------- paymentController.createOrder --------------------- *)
\* ShippingCharges with the threshold itself still charged.
ShippingChargesAbove(amount) == IF amount > FREE_THRESHOLD THEN 0 ELSE STANDARD

ShippingCharges(amount) == IF amount >= FREE_THRESHOLD THEN 0 ELSE STANDARD

TaxAmount(amount) == MathRound(amount * TAX_RATE_PERCENT, 100)

TotalAmount(amount) == amount + ShippingCharges(amount) + TaxAmount(amount)

\* The amount createOrder hands to razorpayService.createOrder.
ControllerOrderAmount(amount) == MathRound(TotalAmount(amount) * PAISE, 1)

\* RazorpayService.createOrder: options.amount handed to orders.create.
ServiceOrderAmount(orderDataAmount) == MathRound(orderDataAmount * PAISE, 1)

\* createOrder with the document saved before the gateway is called.
createOrderSaveFirst(amount, itemsTotal, gatewayUp) ==
  /\ Receive
  /\ Len(orders) < MaxOrders
  /\ gateway' = [gateway EXCEPT !.orderAmount =
                   ServiceOrderAmount(ControllerOrderAmount(amount))]
  /\ UNCHANGED inflight
  /\ LET doc == [NoDoc EXCEPT
                   !.razorpayOrderId = Len(orders) + 1,
                   !.subtotal = amount,
                   !.shippingCharges = ShippingCharges(amount),
                   !.taxAmount = TaxAmount(amount),
                   !.totalAmount = TotalAmount(amount)]
     IN  /\ orders' = Append(orders, PreSaveNew(doc, itemsTotal))
         /\ mail' = Append(mail, [NoMail EXCEPT !.orderConfirmation = 1])
  /\ IF gatewayUp
     THEN /\ resp' = [Response("createOrder", 201) EXCEPT
                        !.totalAmount = TotalAmount(amount)]
          /\ log' = None
     ELSE /\ resp' = Response("createOrder", 500)
          /\ log' = "Razorpay createOrder error"

\* The gateway answers orders.create with a fresh order id, or the call
\* throws; the document is built and saved only after an answer.
createOrder(amount, itemsTotal, gatewayUp) ==
  /\ Receive
  /\ Len(orders) < MaxOrders
  /\ gateway' = [gateway EXCEPT !.orderAmount =
                   ServiceOrderAmount(ControllerOrderAmount(amount))]
  /\ UNCHANGED inflight
  /\ IF gatewayUp
     THEN LET doc == [NoDoc EXCEPT
                        !.razorpayOrderId = Len(orders) + 1,
                        !.subtotal = amount,
                        !.shippingCharges = ShippingCharges(amount),
                        !.taxAmount = TaxAmount(amount),
                        !.totalAmount = TotalAmount(amount)]
          IN  /\ orders' = Append(orders, PreSaveNew(doc, itemsTotal))
              /\ mail' = Append(mail, [NoMail EXCEPT !.orderConfirmation = 1])
              /\ resp' = [Response("createOrder", 201) EXCEPT
                            !.totalAmount = TotalAmount(amount)]
              /\ log' = None
     ELSE /\ UNCHANGED <<orders, mail>>
          /\ resp' = Response("createOrder", 500)
          /\ log' = "Razorpay createOrder error"

(* ------------------ paymentController.verifyPayment -------------------- *)
verifyPayment(oid, pid, sig) ==
  /\ Receive
  /\ UNCHANGED gateway
  /\ IF ~IsAuthentic(oid, pid, sig)
     THEN Answer("verifyPayment", 400)
     ELSE IF FindByOrderId(oid) = 0
     THEN Answer("verifyPayment", 404)
     ELSE LET id == FindByOrderId(oid)
          IN  AwaitSave("verifyPayment", id,
                [orders[id] EXCEPT !.razorpayPaymentId = pid,
                                   !.paymentStatus = "success",
                                   !.status = "confirmed"])

\* await order.save(): the write reaches the store; the handler resumes in
\* a later turn of the event loop, and a webhook for the payment just
\* recorded can be served in between.
verifyPaymentSave(r) ==
  /\ r.kind = "verifyPayment"
  /\ ~r.saved
  /\ Written(r)
  /\ inflight' = (inflight \ {r}) \cup {[r EXCEPT !.saved = TRUE]}
  /\ UNCHANGED <<mail, gateway, resp, nreq, log>>

\* verifyPayment resumes after its save: the email, then the 200.
verifyPaymentSaved(r) ==
  /\ r.kind = "verifyPayment"
  /\ r.saved
  /\ Send(r.id, "paymentSuccess")
  /\ resp' = Response("verifyPayment", 200)
  /\ log' = None
  /\ Release(r)
  /\ UNCHANGED <<orders, gateway, nreq>>

(* --------------- webhookController.handleRazorpayWebhook --------------- *)
\* The bytes the gateway posts: a JSON text, i.e. a value in some layout
\* (whitespace between tokens).
RawBody(layout, content) == [layout |-> layout, content |-> content]

\* JSON.parse, as express.json() of index.js applies it to every
\* application/json request before the router runs; express.raw() on the
\* route then finds the body already read and leaves req.body alone.
JSONparse(raw) == raw.content

\* JSON.stringify(value): the value in the compact layout.
JSONstringify(value) == RawBody("compact", value)

\* IsAuthenticWebhook whatever the key the digest was made with.
IsAuthenticWebhookAnyKey(body, signature) == signature[3] = body

\* RazorpayService.verifyWebhookSignature(body, signature).isAuthentic
IsAuthenticWebhook(body, signature) == HmacSha256(WEBHOOK_SECRET, body) = signature

RefundIdInputs == {1}

Layouts == {"compact", "spaced"}

WebhookContents ==
  [event : {"payment.captured", "payment.failed"}, paymentId : PaymentIds,
   orderId : {0}, refundId : {0}]
    \cup [event : {"order.paid", "payment.authorized"}, paymentId : {None},
          orderId : OrderIdInputs, refundId : {0}]
    \cup [event : {"refund.created", "refund.processed"}, paymentId : PaymentIds,
          orderId : {0}, refundId : RefundIdInputs]

\* x-razorpay-signature headers a webhook request may carry: the gateway's
\* over the bytes sent, the gateway's over the same JSON value in the
\* compact layout (a body reformatted after it was signed), an attacker's.
WebhookSignatureInputs(raw) ==
  {HmacSha256(WEBHOOK_SECRET, raw),
   HmacSha256(WEBHOOK_SECRET, RawBody("compact", raw.content)),
   HmacSha256("attacker_key", raw)}

handlePaymentCaptured(payload) ==
  LET id == FindByPaymentId(payload.paymentId)
  IN  IF id = 0
      THEN AnswerLogged("webhook", 200, "Order not found for payment ID")
      ELSE AwaitSave("payment.captured", id,
             [orders[id] EXCEPT
                !.paymentStatus = "success",
                !.status = "confirmed",
                !.adminNotes = Append(@, Note("Payment captured via webhook", 0, "system"))])

handlePaymentFailed(payload) ==
  LET id == FindByPaymentId(payload.paymentId)
  IN  IF id = 0
      THEN AnswerLogged("webhook", 200, "Order not found for payment ID")
      ELSE AwaitSave("payment.failed", id,
             [orders[id] EXCEPT
                !.paymentStatus = "failed",
                !.status = "failed",
                !.adminNotes = Append(@, Note("Payment failed via webhook", 0, "system"))])

handleOrderPaid(payload) ==
  LET id == FindByOrderId(payload.orderId)
  IN  IF id = 0
      THEN AnswerLogged("webhook", 200, "Order not found in database")
      ELSE AwaitSave("order.paid", id,
             [orders[id] EXCEPT !.paymentStatus = "success", !.status = "confirmed"])

handleRefundCreated(payload) ==
  LET id == FindByPaymentId(payload.paymentId)
  IN  IF id = 0
      THEN AnswerLogged("webhook", 200, "Order not found for payment ID")
      ELSE AwaitSave("refund.created", id,
             [orders[id] EXCEPT
                !.paymentStatus = "refunded",
                !.status = "cancelled",
                !.adminNotes = Append(@, Note("Refund initiated via webhook",
                                              payload.refundId, "system"))])

handleRefundProcessed(payload) ==
  LET id == FindByPaymentId(payload.paymentId)
  IN  IF id = 0
      THEN AnswerLogged("webhook", 200, "Order not found for payment ID")
      ELSE AwaitSave("refund.processed", id,
             [orders[id] EXCEPT
                !.adminNotes = Append(@, Note("Refund processed via webhook",
                                              payload.refundId, "system"))])

\* handleRazorpayWebhook with the default case treated as order.paid.
handleRazorpayWebhookDefaultPaid(raw, signature) ==
  LET body == JSONparse(raw)
      webhookBody == JSONstringify(body)
  IN  /\ Receive
      /\ UNCHANGED gateway
      /\ IF ~IsAuthenticWebhook(webhookBody, signature)
         THEN AnswerLogged("webhook", 400, "Invalid webhook signature")
         ELSE CASE body.event = "payment.captured" -> handlePaymentCaptured(body)
                [] body.event = "payment.failed" -> handlePaymentFailed(body)
                [] body.event = "refund.created" -> handleRefundCreated(body)
                [] body.event = "refund.processed" -> handleRefundProcessed(body)
                [] OTHER -> handleOrderPaid(body)

handleRazorpayWebhook(raw, signature) ==
  LET body == JSONparse(raw)
      webhookBody == JSONstringify(body)
  IN  /\ Receive
      /\ UNCHANGED gateway
      /\ IF ~IsAuthenticWebhook(webhookBody, signature)
         THEN AnswerLogged("webhook", 400, "Invalid webhook signature")
         ELSE CASE body.event = "payment.captured" -> handlePaymentCaptured(body)
                [] body.event = "payment.failed" -> handlePaymentFailed(body)
                [] body.event = "order.paid" -> handleOrderPaid(body)
                [] body.event = "refund.created" -> handleRefundCreated(body)
                [] body.event = "refund.processed" -> handleRefundProcessed(body)
                [] OTHER -> AnswerLogged("webhook", 200, "Unhandled webhook event")

\* handlePaymentCaptured after its save: the email, then the 200.
handlePaymentCapturedSaved(r) ==
  /\ r.kind = "payment.captured"
  /\ Written(r)
  /\ Send(r.id, "paymentSuccess")
  /\ resp' = Response("webhook", 200)
  /\ log' = "Payment captured for order"
  /\ Release(r)
  /\ UNCHANGED <<gateway, nreq>>

\* The console.log that ends an event handler whose save succeeded.
SavedLine(event) ==
  CASE event = "payment.failed" -> "Payment failed for order"
    [] event = "order.paid" -> "Order marked as paid"
    [] event = "refund.created" -> "Refund created for order"
    [] event = "refund.processed" -> "Refund processed for order"

\* The other event handlers after their save: the 200.
handleEventSaved(r) ==
  /\ r.kind \in {"payment.failed", "order.paid", "refund.created", "refund.processed"}
  /\ Written(r)
  /\ resp' = Response("webhook", 200)
  /\ log' = SavedLine(r.kind)
  /\ Release(r)
  /\ UNCHANGED <<mail, gateway, nreq>>

(* ------------------------ middleware/auth.js --------------------------- *)
\* Authorization headers: none, a valid token of a customer, of an admin.
Tokens == {None, "customer", "admin"}

\* adminAuth: the status it answers, 0 when it calls next().
adminAuth(token) ==
  IF token = None THEN 401 ELSE IF token # "admin" THEN 403 ELSE 0

(* ------------------ orderController.updateOrderStatus ------------------ *)
StatusInputs == ORDER_STATUS \cup {"returned"}

\* req.body of a status update: every status alone, and the shipping
\* statuses with notes, a tracking number and a carrier.
StatusBodies ==
  [status : StatusInputs, notes : {None}, trackingNumber : {None}, carrier : {None}]
    \cup [status : {"shipped"}, notes : {None, "n"},
          trackingNumber : {"TRK"}, carrier : {"carrier"}]

\* validateOrderStatusUpdate without the rule on trackingNumber.
validateOrderStatusUpdateStatusOnly(body) == body.status \in ORDER_STATUS

\* validateOrderStatusUpdate: TRUE when the body passes.
validateOrderStatusUpdate(body) ==
  /\ body.status \in ORDER_STATUS
  /\ body.status = "shipped" => body.trackingNumber # None

updateOrderStatus(orderId, body) ==
  IF orderId \notin 1 .. Len(orders)
  THEN Answer("updateOrderStatus", 404)
  ELSE LET order == orders[orderId]
           shipping ==
             [trackingNumber |->
                IF body.trackingNumber # None THEN body.trackingNumber
                ELSE order.shipping.trackingNumber,
              carrier |->
                IF body.carrier # None THEN body.carrier ELSE order.shipping.carrier,
              estimatedDelivery |->
                IF body.status = "shipped" THEN TRUE ELSE order.shipping.estimatedDelivery,
              deliveredAt |->
                IF body.status = "delivered" THEN TRUE ELSE order.shipping.deliveredAt]
       IN  AwaitSave("updateOrderStatus", orderId,
             [order EXCEPT
                !.status = body.status,
                !.shipping = shipping,
                !.adminNotes =
                   IF body.notes # None
                   THEN Append(@, Note("Status updated", 0, "admin"))
                   ELSE @])

\* putUpdateStatus with adminAuth in front of the validation.
putUpdateStatusAdminOnly(token, orderId, body) ==
  /\ Receive
  /\ UNCHANGED gateway
  /\ IF adminAuth(token) # 0
     THEN Answer("updateOrderStatus", adminAuth(token))
     ELSE IF ~validateOrderStatusUpdate(body)
     THEN Answer("updateOrderStatus", 400)
     ELSE updateOrderStatus(orderId, body)

\* PUT /api/orders/update-status/:orderId as routes/orderRoutes.js mounts
\* it: validateOrderStatusUpdate, then the handler.  adminAuth is imported
\* by the router and not used on the route, so the Authorization header
\* (token) is read by nothing.
putUpdateStatus(token, orderId, body) ==
  /\ Receive
  /\ UNCHANGED gateway
  /\ IF ~validateOrderStatusUpdate(body)
     THEN Answer("updateOrderStatus", 400)
     ELSE updateOrderStatus(orderId, body)

updateOrderStatusSaved(r) ==
  /\ r.kind = "updateOrderStatus"
  /\ Written(r)
  /\ IF r.doc.status \in {"shipped", "delivered"}
     THEN Send(r.id, "shippingUpdate")
     ELSE UNCHANGED mail
  /\ resp' = Response("updateOrderStatus", 200)
  /\ log' = None
  /\ Release(r)
  /\ UNCHANGED <<gateway, nreq>>

(* ------------------ paymentController.refundPayment -------------------- *)
\* req.body.amount: absent (0), more than any total.
RefundAmountInputs == {0, 5000}

\* RazorpayService.createRefund: the amount handed to payments.refund.
ServiceRefundAmount(amount) == MathRound(amount * PAISE, 1)

\* refundPayment without the check of paymentStatus.
refundPaymentAnyStatus(paymentId, amount, gatewayUp) ==
  LET id == FindByPaymentId(paymentId)
  IN  IF id = 0
      THEN Answer("refundPayment", 404) /\ UNCHANGED gateway
      ELSE LET refundAmount == IF amount # 0 THEN amount ELSE orders[id].totalAmount
               refundId == Len(gateway.refunds) + 1
           IN  /\ gateway' = [gateway EXCEPT !.refunds =
                     Append(@, [paymentId |-> paymentId,
                                amount |-> ServiceRefundAmount(refundAmount),
                                created |-> gatewayUp])]
               /\ IF gatewayUp
                  THEN AwaitSave("refundPayment", id,
                         [orders[id] EXCEPT
                            !.paymentStatus = "refunded",
                            !.status = "cancelled",
                            !.adminNotes = Append(@, Note("Refund initiated", refundId, "admin"))])
                  ELSE AnswerLogged("refundPayment", 500, "Refund payment error")

\* refundPayment with the Order marked and saved whatever the gateway says.
refundPaymentSaveOnFailure(paymentId, amount, gatewayUp) ==
  LET id == FindByPaymentId(paymentId)
  IN  IF id = 0
      THEN Answer("refundPayment", 404) /\ UNCHANGED gateway
      ELSE IF orders[id].paymentStatus # "success"
      THEN Answer("refundPayment", 400) /\ UNCHANGED gateway
      ELSE LET refundAmount == IF amount # 0 THEN amount ELSE orders[id].totalAmount
               refundId == Len(gateway.refunds) + 1
           IN  /\ gateway' = [gateway EXCEPT !.refunds =
                     Append(@, [paymentId |-> paymentId,
                                amount |-> ServiceRefundAmount(refundAmount),
                                created |-> gatewayUp])]
               /\ AwaitSave("refundPayment", id,
                     [orders[id] EXCEPT
                        !.paymentStatus = "refunded",
                        !.status = "cancelled",
                        !.adminNotes = Append(@, Note("Refund initiated", refundId, "admin"))])

refundPayment(paymentId, amount, gatewayUp) ==
  LET id == FindByPaymentId(paymentId)
  IN  IF id = 0
      THEN Answer("refundPayment", 404) /\ UNCHANGED gateway
      ELSE IF orders[id].paymentStatus # "success"
      THEN Answer("refundPayment", 400) /\ UNCHANGED gateway
      ELSE LET refundAmount == IF amount # 0 THEN amount ELSE orders[id].totalAmount
               refundId == Len(gateway.refunds) + 1
           IN  /\ gateway' = [gateway EXCEPT !.refunds =
                     Append(@, [paymentId |-> paymentId,
                                amount |-> ServiceRefundAmount(refundAmount),
                                created |-> gatewayUp])]
               /\ IF gatewayUp
                  THEN AwaitSave("refundPayment", id,
                         [orders[id] EXCEPT
                            !.paymentStatus = "refunded",
                            !.status = "cancelled",
                            !.adminNotes = Append(@, Note("Refund initiated", refundId, "admin"))])
                  ELSE AnswerLogged("refundPayment", 500, "Refund payment error")

\* POST /api/payment/refund/:paymentId
postRefund(token, paymentId, amount, gatewayUp) ==
  /\ Receive
  /\ IF adminAuth(token) # 0
     THEN Answer("refundPayment", adminAuth(token)) /\ UNCHANGED gateway
     ELSE refundPayment(paymentId, amount, gatewayUp)

refundPaymentSaved(r) ==
  /\ r.kind = "refundPayment"
  /\ Written(r)
  /\ resp' = Response("refundPayment", 200)
  /\ log' = None
  /\ Release(r)
  /\ UNCHANGED <<mail, gateway, nreq>>

(* ------------------------------- faults ------------------------------- *)
Templates == {"orderConfirmation", "paymentSuccess", "shippingUpdate"}

\* The console.error of the catch block of EmailService.send<template>.
SendErrorLine(template) ==
  CASE template = "orderConfirmation" -> "Send order confirmation email error"
    [] template = "paymentSuccess" -> "Send payment success email error"
    [] template = "shippingUpdate" -> "Send shipping update email error"

\* sendMailFailed with the error thrown on to the request handler.
sendMailFailedThrown(id, template) ==
  /\ id \in 1 .. Len(mail)
  /\ mail[id][template] > 0
  /\ log' = SendErrorLine(template)
  /\ resp' = [resp EXCEPT !.code = 500]
  /\ UNCHANGED <<orders, inflight, mail, gateway, nreq>>

\* An email handed to the EmailService fails (building it throws, or
\* transporter.sendMail rejects): the method's own catch logs the error
\* and returns { success: false }; its caller did not await it.
sendMailFailed(id, template) ==
  /\ id \in 1 .. Len(mail)
  /\ mail[id][template] > 0
  /\ log' = SendErrorLine(template)
  /\ UNCHANGED <<orders, inflight, mail, gateway, resp, nreq>>

\* createOrder whose order.save() rejects after the gateway answered:
\* next(err), before sendOrderConfirmation is reached.
createOrderSaveFailed(amount, itemsTotal) ==
  /\ Receive
  /\ Len(orders) < MaxOrders
  /\ gateway' = [gateway EXCEPT !.orderAmount =
                   ServiceOrderAmount(ControllerOrderAmount(amount))]
  /\ resp' = Response("createOrder", 500)
  /\ log' = None
  /\ UNCHANGED <<orders, inflight, mail>>

\* await order.save() of verifyPayment rejects: next(err).
verifyPaymentSaveFailed(r) ==
  /\ r.kind = "verifyPayment"
  /\ ~r.saved
  /\ resp' = Response("verifyPayment", 500)
  /\ log' = None
  /\ Release(r)
  /\ UNCHANGED <<orders, mail, gateway, nreq>>

\* await order.save() of updateOrderStatus rejects: console.error, next(error).
updateOrderStatusSaveFailed(r) ==
  /\ r.kind = "updateOrderStatus"
  /\ resp' = Response("updateOrderStatus", 500)
  /\ log' = "Update order status error"
  /\ Release(r)
  /\ UNCHANGED <<orders, mail, gateway, nreq>>

\* The console.error of the catch block of a webhook event handler.
ErrorLine(event) ==
  CASE event = "payment.captured" -> "Handle payment captured error"
    [] event = "payment.failed" -> "Handle payment failed error"
    [] event = "order.paid" -> "Handle order paid error"
    [] event = "refund.created" -> "Handle refund created error"
    [] event = "refund.processed" -> "Handle refund processed error"

\* handleEventLookupFailed with the error reaching handleRazorpayWebhook's
\* own catch.
handleEventLookupFailedOuterCatch(raw, signature) ==
  LET body == JSONparse(raw)
  IN  /\ IsAuthenticWebhook(JSONstringify(body), signature)
      /\ body.event \in {"payment.captured", "payment.failed", "order.paid",
                         "refund.created", "refund.processed"}
      /\ Receive
      /\ UNCHANGED gateway
      /\ AnswerLogged("webhook", 500, "Webhook handler error")

\* A webhook that passes the signature check and names a handled event,
\* the Order.findOne of its event handler rejecting: the handler's catch
\* logs, the handler returns, and handleRazorpayWebhook answers 200.
handleEventLookupFailed(raw, signature) ==
  LET body == JSONparse(raw)
  IN  /\ IsAuthenticWebhook(JSONstringify(body), signature)
      /\ body.event \in {"payment.captured", "payment.failed", "order.paid",
                         "refund.created", "refund.processed"}
      /\ Receive
      /\ UNCHANGED gateway
      /\ AnswerLogged("webhook", 200, ErrorLine(body.event))

\* await order.save() of a webhook event handler rejects: the handler's
\* catch logs, nothing after the save runs, and the webhook is answered 200.
handleEventSaveFailed(r) ==
  /\ r.kind \in {"payment.captured", "payment.failed", "order.paid",
                 "refund.created", "refund.processed"}
  /\ resp' = Response("webhook", 200)
  /\ log' = ErrorLine(r.kind)
  /\ Release(r)
  /\ UNCHANGED <<orders, mail, gateway, nreq>>

Next ==
  \/ \E a \in Amounts, off \in ItemsOffsets, up \in BOOLEAN : createOrder(a, a + off, up)
  \/ \E oid \in OrderIdInputs, pid \in PaymentIds :
       \E sig \in SignatureInputs(oid, pid) : verifyPayment(oid, pid, sig)
  \/ \E r \in inflight : verifyPaymentSave(r)
  \/ \E r \in inflight : verifyPaymentSaved(r)
  \/ \E layout \in Layouts, content \in WebhookContents :
       \E sig \in WebhookSignatureInputs(RawBody(layout, content)) :
         handleRazorpayWebhook(RawBody(layout, content), sig)
  \/ \E r \in inflight : handlePaymentCapturedSaved(r)
  \/ \E r \in inflight : handleEventSaved(r)
  \/ \E t \in Tokens, id \in OrderIdInputs, body \in StatusBodies :
       putUpdateStatus(t, id, body)
  \/ \E r \in inflight : updateOrderStatusSaved(r)
  \/ \E t \in Tokens, pid \in PaymentIds, amt \in RefundAmountInputs, up \in BOOLEAN :
       postRefund(t, pid, amt, up)
  \/ \E r \in inflight : refundPaymentSaved(r)

Spec == Init /\ [][Next]_vars

\* Order creation alone, over PricingAmounts, the gateway answering.
NextPricing ==
  \E a \in PricingAmounts, off \in PricingOffsets : createOrder(a, a + off, TRUE)

SpecPricing == Init /\ [][NextPricing]_vars

\* The payment flow and the webhooks alone: orders are created and
\* verified, webhooks of every body and signature are served.
NextWebhook ==
  \/ \E a \in Amounts, off \in ItemsOffsets, up \in BOOLEAN : createOrder(a, a + off, up)
  \/ \E oid \in OrderIdInputs, pid \in PaymentIds :
       \E sig \in SignatureInputs(oid, pid) : verifyPayment(oid, pid, sig)
  \/ \E r \in inflight : verifyPaymentSave(r)
  \/ \E r \in inflight : verifyPaymentSaved(r)
  \/ \E layout \in Layouts, content \in WebhookContents :
       \E sig \in WebhookSignatureInputs(RawBody(layout, content)) :
         handleRazorpayWebhook(RawBody(layout, content), sig)
  \/ \E r \in inflight : handlePaymentCapturedSaved(r)
  \/ \E r \in inflight : handleEventSaved(r)

SpecWebhook == Init /\ [][NextWebhook]_vars

\* payment.captured deliveries, the webhooks that send an email.
CapturedContents == {c \in WebhookContents : c.event = "payment.captured"}

\* The requests that send an email, with the faults of the mail transport
\* and of the database under them.
NextMail ==
  \/ \E a \in Amounts, off \in ItemsOffsets, up \in BOOLEAN : createOrder(a, a + off, up)
  \/ \E a \in Amounts, off \in ItemsOffsets : createOrderSaveFailed(a, a + off)
  \/ \E oid \in OrderIdInputs, pid \in PaymentIds :
       \E sig \in SignatureInputs(oid, pid) : verifyPayment(oid, pid, sig)
  \/ \E r \in inflight : verifyPaymentSave(r)
  \/ \E r \in inflight : verifyPaymentSaveFailed(r)
  \/ \E r \in inflight : verifyPaymentSaved(r)
  \/ \E layout \in Layouts, content \in CapturedContents :
       \E sig \in WebhookSignatureInputs(RawBody(layout, content)) :
         handleRazorpayWebhook(RawBody(layout, content), sig)
  \/ \E r \in inflight : handlePaymentCapturedSaved(r)
  \/ \E r \in inflight : handleEventSaveFailed(r)
  \/ \E t \in Tokens, id \in OrderIdInputs, body \in StatusBodies :
       putUpdateStatus(t, id, body)
  \/ \E r \in inflight : updateOrderStatusSaved(r)
  \/ \E r \in inflight : updateOrderStatusSaveFailed(r)
  \/ \E id \in OrderIdInputs, template \in Templates : sendMailFailed(id, template)

SpecMail == Init /\ [][NextMail]_vars

\* The payment flow and the webhooks, the database failing under the
\* webhook event handlers.
NextWebhookFaults ==
  \/ \E a \in Amounts, off \in ItemsOffsets, up \in BOOLEAN : createOrder(a, a + off, up)
  \/ \E oid \in OrderIdInputs, pid \in PaymentIds :
       \E sig \in SignatureInputs(oid, pid) : verifyPayment(oid, pid, sig)
  \/ \E r \in inflight : verifyPaymentSave(r)
  \/ \E r \in inflight : verifyPaymentSaved(r)
  \/ \E layout \in Layouts, content \in WebhookContents :
       \E sig \in WebhookSignatureInputs(RawBody(layout, content)) :
         handleRazorpayWebhook(RawBody(layout, content), sig)
  \/ \E layout \in Layouts, content \in WebhookContents :
       \E sig \in WebhookSignatureInputs(RawBody(layout, content)) :
         handleEventLookupFailed(RawBody(layout, content), sig)
  \/ \E r \in inflight : handlePaymentCapturedSaved(r)
  \/ \E r \in inflight : handleEventSaved(r)
  \/ \E r \in inflight : handleEventSaveFailed(r)

SpecWebhookFaults == Init /\ [][NextWebhookFaults]_vars

(* ======================= properties of the model ======================= *)
Orders == 1 .. Len(orders)

ValidPairs ==
  {<<"pending", "pending">>, <<"success", "confirmed">>, <<"success", "shipped">>,
   <<"success", "delivered">>, <<"failed", "failed">>, <<"refunded", "cancelled">>}

\* C1: every stored Order's (paymentStatus, status) is one of the six pairs
\* valid at rest.
C1_ValidStatusPairs ==
  \A i \in Orders : <<orders[i].paymentStatus, orders[i].status>> \in ValidPairs

CapturedNote == Note("Payment captured via webhook", 0, "system")

\* The requests served were one createOrder, one verifyPayment that found
\* the Order and two payment.captured deliveries that found it by the
\* payment id the verification stored: each delivery left its note, and
\* nothing else fits in four requests.
OneVerifyTwoCaptures(i) ==
  /\ nreq = 4
  /\ inflight = {}
  /\ orders[i].adminNotes = <<CapturedNote, CapturedNote>>

\* C2: after one successful verifyPayment and two deliveries of
\* payment.captured for the same payment, the Order is (success, confirmed)
\* and exactly one payment-success email was sent.
C2_OneNotification ==
  \A i \in Orders :
    OneVerifyTwoCaptures(i) =>
      /\ orders[i].paymentStatus = "success"
      /\ orders[i].status = "confirmed"
      /\ mail[i].paymentSuccess = 1

\* C3: a payment.captured webhook served while the verifyPayment request
\* that recorded the payment is still being handled (saved, not yet
\* answered) is a no-op: it writes nothing to the Order and sends no email.
C3_RaceLoserIsNoOp ==
  [][\A r \in inflight :
       ( /\ r.kind = "payment.captured"
         /\ \E v \in inflight : v.kind = "verifyPayment" /\ v.saved /\ v.id = r.id
         /\ handlePaymentCapturedSaved(r) )
       => orders' = orders /\ mail' = mail]_vars

\* C4: once an Order's razorpayPaymentId holds a value, no step changes it.
C4_PaymentIdWrittenOnce ==
  [][\A i \in Orders :
       orders[i].razorpayPaymentId # None =>
         orders'[i].razorpayPaymentId = orders[i].razorpayPaymentId]_vars

\* C5: a verifyPayment request that found its Order with a paymentStatus
\* other than pending changes neither paymentStatus, status nor
\* razorpayPaymentId and sends no payment-success email.
C5_VerifyOnlyWhenPending ==
  [][\A r \in inflight :
       (r.kind = "verifyPayment" /\ r.loaded.paymentStatus # "pending") =>
         /\ verifyPaymentSave(r) =>
              /\ orders'[r.id].paymentStatus = orders[r.id].paymentStatus
              /\ orders'[r.id].status = orders[r.id].status
              /\ orders'[r.id].razorpayPaymentId = orders[r.id].razorpayPaymentId
         /\ verifyPaymentSaved(r) => mail' = mail]_vars

\* The digest the gateway computes for (oid, pid).
GatewayDigest(oid, pid) == <<"hmac-sha256", "RAZORPAY_KEY_SECRET", <<oid, "|", pid>>>>

\* C6: a verifyPayment request whose signature is not the HMAC of
\* orderId|paymentId under the key secret is answered 400; no Order is
\* changed or loaded for update and no email is sent.
C6_BadSignatureRejected ==
  [][\A oid \in OrderIdInputs, pid \in PaymentIds :
       \A sig \in SignatureInputs(oid, pid) :
         (sig # GatewayDigest(oid, pid) /\ verifyPayment(oid, pid, sig)) =>
           /\ resp' = [kind |-> "verifyPayment", code |-> 400, totalAmount |-> 0]
           /\ orders' = orders
           /\ inflight' = inflight
           /\ mail' = mail]_vars

\* A verification was just refused while the Order it names is stored,
\* (pending, pending) and without a payment id.
C6_Witness ==
  /\ resp.kind = "verifyPayment" /\ resp.code = 400
  /\ \E i \in Orders :
       /\ orders[i].paymentStatus = "pending" /\ orders[i].status = "pending"
       /\ orders[i].razorpayPaymentId = None

\* C7: a refund request for more than the Order's totalAmount makes no
\* gateway call and leaves the Order as it was.
C7_OverRefundRejected ==
  [][\A t \in Tokens, pid \in PaymentIds, amt \in RefundAmountInputs, up \in BOOLEAN :
       ( /\ FindByPaymentId(pid) # 0
         /\ amt > orders[FindByPaymentId(pid)].totalAmount
         /\ postRefund(t, pid, amt, up) )
       => gateway' = gateway /\ inflight' = inflight /\ orders' = orders]_vars

\* C8: the amount handed to orders.create is 100 x the totalAmount that
\* createOrder computed and answered.
C8_PaiseOnce ==
  (resp.kind = "createOrder" /\ resp.code = 201) =>
    gateway.orderAmount = 100 * resp.totalAmount

\* C9: every stored Order has
\* totalAmount = subtotal + shippingCharges + taxAmount - discountAmount.
C9_TotalIsSum ==
  \A i \in Orders :
    orders[i].totalAmount =
      orders[i].subtotal + orders[i].shippingCharges + orders[i].taxAmount
        - orders[i].discountAmount

\* An Order whose items did not add up to the amount sent, saved again by
\* a verification, a webhook and a refund or status update.
C9_Witness ==
  \E i \in Orders :
    /\ orders[i].subtotal = 1000 /\ orders[i].taxAmount = 162
    /\ orders[i].razorpayPaymentId # None
    /\ Len(orders[i].adminNotes) >= 2

\* round(amount x 0.18): the integer t with t - 1/2 <= 0.18 amount < t + 1/2.
IsRoundedTax(t, amount) ==
  /\ 100 * t - 50 <= 18 * amount
  /\ 18 * amount < 100 * t + 50

\* C10: createOrder charges shipping 0 from amount 999 on and 99 below,
\* tax round(amount x 0.18) on the amount alone, and answers the total
\* amount + shipping + tax; 900 gives 99, 162 and 1161.
C10_Pricing ==
  [][\A a \in PricingAmounts, off \in PricingOffsets :
       createOrder(a, a + off, TRUE) =>
         LET o == orders'[Len(orders')]
         IN  /\ o.shippingCharges = (IF a >= 999 THEN 0 ELSE 99)
             /\ IsRoundedTax(o.taxAmount, a)
             /\ resp'.totalAmount = a + o.shippingCharges + o.taxAmount
             /\ a = 900 => /\ o.shippingCharges = 99
                           /\ o.taxAmount = 162
                           /\ resp'.totalAmount = 1161]_vars

\* An order of amount 900 was just priced and answered.
C10_Witness ==
  /\ resp = [kind |-> "createOrder", code |-> 201, totalAmount |-> 1161]
  /\ orders[Len(orders)].shippingCharges = 99
  /\ orders[Len(orders)].taxAmount = 162

\* How often `note` occurs in the adminNotes of Order i.
Occurrences(i, note) ==
  Cardinality({j \in DOMAIN orders[i].adminNotes : orders[i].adminNotes[j] = note})

\* C11: an Order holds the audit note of a refund.created webhook, and that
\* of a refund.processed webhook, at most once per refund id, and no
\* refund.created note for a refund that AdminRefund already noted.
C11_RefundNoteOnce ==
  \A i \in Orders, k \in RefundIdInputs :
    /\ Occurrences(i, Note("Refund initiated via webhook", k, "system")) <= 1
    /\ Occurrences(i, Note("Refund processed via webhook", k, "system")) <= 1
    /\ Occurrences(i, Note("Refund initiated", k, "admin")) >= 1 =>
         Occurrences(i, Note("Refund initiated via webhook", k, "system")) = 0

\* The digest the gateway computes over the bytes `raw` it posts.
WebhookDigest(raw) == <<"hmac-sha256", "RAZORPAY_WEBHOOK_SECRET", raw>>

\* The JSON text of `content` as JSON.stringify lays it out.
Compact(content) == [layout |-> "compact", content |-> content]

\* C12: a payment.captured webhook, signed by the gateway, received while
\* every stored Order (the one the payment is for among them) is still
\* (pending, pending) with no payment id, loads an Order and sets it to
\* (success, confirmed) for its save.
C12_WebhookBeforeVerify ==
  [][\A content \in WebhookContents :
       ( /\ content.event = "payment.captured"
         /\ Orders # {}
         /\ \A i \in Orders : /\ orders[i].paymentStatus = "pending"
                               /\ orders[i].status = "pending"
                               /\ orders[i].razorpayPaymentId = None
         /\ handleRazorpayWebhook(Compact(content), WebhookDigest(Compact(content))) )
       => \E r \in inflight' \ inflight :
            /\ r.kind = "payment.captured"
            /\ r.doc.paymentStatus = "success"
            /\ r.doc.status = "confirmed"]_vars

HandledEvents ==
  {"payment.captured", "payment.failed", "order.paid", "refund.created", "refund.processed"}

\* The request left everything but its answer as it was.
OnlyAnswered == orders' = orders /\ inflight' = inflight /\ mail' = mail

\* C13: a webhook whose signature passes the check and whose event is not
\* one of the five handled is answered 200; no Order is changed or loaded
\* for update and no email is sent.
C13_UnknownEventIgnored ==
  [][\A layout \in Layouts, content \in WebhookContents :
       ( /\ content.event \notin HandledEvents
         /\ handleRazorpayWebhook([layout |-> layout, content |-> content],
                                  WebhookDigest(Compact(content))) )
       => /\ resp' = [kind |-> "webhook", code |-> 200, totalAmount |-> 0]
          /\ OnlyAnswered]_vars

\* An event that is not handled was just answered, an Order being stored.
C13_Witness ==
  /\ log = "Unhandled webhook event"
  /\ resp.kind = "webhook" /\ resp.code = 200
  /\ Orders # {}

\* No stored Order carries the identifier the event names.
LookupMiss(content) ==
  IF content.event = "order.paid"
  THEN \A i \in Orders : orders[i].razorpayOrderId # content.orderId
  ELSE \A i \in Orders : orders[i].razorpayPaymentId # content.paymentId

\* C14: a handled webhook event whose signature passes the check and whose
\* payment or order id matches no stored Order is answered 200; no Order is
\* changed or loaded for update.
C14_LookupMissAnswered ==
  [][\A layout \in Layouts, content \in WebhookContents :
       ( /\ content.event \in HandledEvents
         /\ LookupMiss(content)
         /\ handleRazorpayWebhook([layout |-> layout, content |-> content],
                                  WebhookDigest(Compact(content))) )
       => /\ resp' = [kind |-> "webhook", code |-> 200, totalAmount |-> 0]
          /\ OnlyAnswered]_vars

\* A lookup by payment id just missed while an Order with another payment
\* id was stored.
C14_Witness ==
  /\ log = "Order not found for payment ID"
  /\ resp.kind = "webhook" /\ resp.code = 200
  /\ \E i \in Orders : orders[i].razorpayPaymentId # None

\* C15: a webhook whose signature is not the digest the handler computes is
\* answered 400, no Order being changed, loaded for update or notified;
\* a webhook whose signature is that digest, and a webhook handler that
\* resumes after its save, are not answered 400.
C15_BadWebhookSignature ==
  [][/\ \A layout \in Layouts, content \in WebhookContents :
          \A sig \in WebhookSignatureInputs([layout |-> layout, content |-> content]) :
            handleRazorpayWebhook([layout |-> layout, content |-> content], sig) =>
              IF sig # WebhookDigest(Compact(content))
              THEN /\ resp' = [kind |-> "webhook", code |-> 400, totalAmount |-> 0]
                   /\ OnlyAnswered
              ELSE inflight' # inflight \/ resp'.code = 200
     /\ \A r \in inflight :
          (handlePaymentCapturedSaved(r) \/ handleEventSaved(r)) => resp'.code = 200]_vars

\* A webhook was just refused while an Order it could name was stored.
C15_Witness ==
  /\ log = "Invalid webhook signature"
  /\ resp.kind = "webhook" /\ resp.code = 400
  /\ \E i \in Orders : orders[i].razorpayPaymentId # None

\* C16: a webhook is refused exactly when its signature is not the digest
\* of the bytes received: whatever the layout of the body the gateway
\* signed it is accepted, and a signature made over other bytes is not.
C16_SignatureOverRawBody ==
  [][\A layout \in Layouts, content \in WebhookContents :
       \A sig \in WebhookSignatureInputs([layout |-> layout, content |-> content]) :
         handleRazorpayWebhook([layout |-> layout, content |-> content], sig) =>
           ( ( /\ resp' = [kind |-> "webhook", code |-> 400, totalAmount |-> 0]
               /\ log' = "Invalid webhook signature"
               /\ inflight' = inflight )
             <=> sig # WebhookDigest([layout |-> layout, content |-> content]) )]_vars

\* C17: an admin refund request that finds its Order with a paymentStatus
\* other than success is answered 400, calls no gateway refund and leaves
\* the Order as it is; one that finds it with success, the gateway
\* creating the refund, goes to its save with (refunded, cancelled) and
\* one more note, and its save stores refunded, appends exactly one note
\* and stores cancelled (the status not having been rewritten meanwhile).
C17_RefundPreconditions ==
  [][/\ \A pid \in PaymentIds, amt \in RefundAmountInputs, up \in BOOLEAN :
          ( /\ FindByPaymentId(pid) # 0
            /\ postRefund("admin", pid, amt, up) )
          => IF orders[FindByPaymentId(pid)].paymentStatus # "success"
             THEN /\ resp' = [kind |-> "refundPayment", code |-> 400, totalAmount |-> 0]
                  /\ gateway' = gateway
                  /\ OnlyAnswered
             ELSE up =>
                    \E r \in inflight' \ inflight :
                      /\ r.kind = "refundPayment"
                      /\ r.doc.paymentStatus = "refunded"
                      /\ r.doc.status = "cancelled"
                      /\ Len(r.doc.adminNotes) = Len(r.loaded.adminNotes) + 1
     /\ \A r \in inflight :
          refundPaymentSaved(r) =>
            /\ orders'[r.id].paymentStatus = "refunded"
            /\ orders[r.id].status = r.loaded.status => orders'[r.id].status = "cancelled"
            /\ Len(orders'[r.id].adminNotes) = Len(orders[r.id].adminNotes) + 1
            /\ orders'[r.id].adminNotes[Len(orders'[r.id].adminNotes)].addedBy = "admin"]_vars

\* A second refund of a payment was just refused, the first one stored.
C17_Witness ==
  /\ resp.kind = "refundPayment" /\ resp.code = 400
  /\ Len(gateway.refunds) = 1
  /\ \E i \in Orders :
       /\ orders[i].paymentStatus = "refunded" /\ orders[i].status = "cancelled"
       /\ Occurrences(i, Note("Refund initiated", 1, "admin")) = 1

\* C18: an admin refund whose gateway call fails, and a verification that
\* the signature check reports as failed, end in an error response with
\* every Order, every request in flight and the mail as they were.
C18_GatewayFailureNoChange ==
  [][/\ \A pid \in PaymentIds, amt \in RefundAmountInputs :
          ( /\ FindByPaymentId(pid) # 0
            /\ orders[FindByPaymentId(pid)].paymentStatus = "success"
            /\ postRefund("admin", pid, amt, FALSE) )
          => /\ resp'.kind = "refundPayment" /\ resp'.code >= 400
             /\ Len(gateway'.refunds) = Len(gateway.refunds) + 1
             /\ OnlyAnswered
     /\ \A oid \in OrderIdInputs, pid \in PaymentIds :
          \A sig \in SignatureInputs(oid, pid) :
            (sig # GatewayDigest(oid, pid) /\ verifyPayment(oid, pid, sig))
            => resp'.code >= 400 /\ OnlyAnswered]_vars

\* A refund just failed at the gateway; its Order is still paid.
C18_Witness ==
  /\ resp.kind = "refundPayment" /\ resp.code >= 400
  /\ log = "Refund payment error"
  /\ Len(gateway.refunds) >= 1
  /\ ~gateway.refunds[Len(gateway.refunds)].created
  /\ \E i \in Orders :
       /\ orders[i].paymentStatus = "success"
       /\ orders[i].razorpayPaymentId = gateway.refunds[Len(gateway.refunds)].paymentId
       /\ orders[i].adminNotes = <<>>

\* C19: createOrder whose gateway call fails stores no Order and sends no
\* email; one whose gateway call succeeds stores one Order, which carries
\* the gateway order id just issued and is (pending, pending) with no
\* payment id.
C19_GatewayFirst ==
  [][\A a \in Amounts, off \in ItemsOffsets :
       /\ createOrder(a, a + off, FALSE) =>
            /\ resp'.kind = "createOrder" /\ resp'.code >= 400
            /\ gateway'.orderAmount # 0
            /\ OnlyAnswered
       /\ createOrder(a, a + off, TRUE) =>
            /\ Len(orders') = Len(orders) + 1
            /\ \A i \in Orders : orders'[i] = orders[i]
            /\ orders'[Len(orders')].razorpayOrderId = Len(orders) + 1
            /\ \A i \in Orders : orders[i].razorpayOrderId # Len(orders) + 1
            /\ orders'[Len(orders')].paymentStatus = "pending"
            /\ orders'[Len(orders')].status = "pending"
            /\ orders'[Len(orders')].razorpayPaymentId = None]_vars

\* Order creation just failed at the gateway and nothing is stored.
C19_Witness ==
  /\ resp.kind = "createOrder" /\ resp.code >= 400
  /\ log = "Razorpay createOrder error"
  /\ gateway.orderAmount # 0
  /\ orders = <<>> /\ mail = <<>>

\* C20: no step removes an Order, and no step changes the paymentStatus or
\* the status of an Order that is (refunded, cancelled).
C20_RefundTerminal ==
  [][/\ Len(orders') >= Len(orders)
     /\ \A i \in Orders :
          (orders[i].paymentStatus = "refunded" /\ orders[i].status = "cancelled") =>
            /\ orders'[i].paymentStatus = "refunded"
            /\ orders'[i].status = "cancelled"]_vars
\* C21: adminNotes is append-only: every note of an Order is still there,
\* unchanged and at the same position, after every step; a step only adds
\* notes at the end.
C21_NotesAppendOnly ==
  [][\A i \in Orders :
       /\ Len(orders'[i].adminNotes) >= Len(orders[i].adminNotes)
       /\ \A j \in 1 .. Len(orders[i].adminNotes) :
            orders'[i].adminNotes[j] = orders[i].adminNotes[j]]_vars

\* Two requests that had loaded the same Order both saved a note: the note
\* of the first is followed by the note of the second, no request pending.
C21_Witness ==
  /\ inflight = {}
  /\ \E i \in Orders :
       /\ Len(orders[i].adminNotes) = 2
       /\ orders[i].adminNotes[1].addedBy = "admin"
       /\ orders[i].adminNotes[2].addedBy = "system"

\* C22: a notification that fails changes no Order, no pending request, no
\* mail count and not the response already sent; and a notification is
\* handed over only in a step that answers 200/201 with the Order's save in
\* the store (a new Order appended, or the request's write applied).
C22_MailFailureHarmless ==
  [][/\ \A id \in OrderIdInputs, template \in Templates :
          sendMailFailed(id, template) =>
            /\ orders' = orders
            /\ inflight' = inflight
            /\ mail' = mail
            /\ resp' = resp
     /\ mail' # mail =>
          \/ /\ Len(orders') = Len(orders) + 1
             /\ resp'.kind = "createOrder" /\ resp'.code = 201
          \/ \E r \in inflight \ inflight' :
               /\ resp'.code = 200
               /\ \/ r.saved /\ orders' = orders
                  \/ orders'[r.id] = SaveLoaded(orders[r.id], r.loaded, r.doc)]_vars

\* The payment-success email of a verified Order failed after the 200 of
\* its verification: the Order is paid, the response stands.
C22_Witness ==
  /\ log = "Send payment success email error"
  /\ resp = [kind |-> "verifyPayment", code |-> 200, totalAmount |-> 0]
  /\ \E i \in Orders :
       /\ orders[i].paymentStatus = "success" /\ orders[i].status = "confirmed"
       /\ orders[i].razorpayPaymentId # None
       /\ mail[i].paymentSuccess = 1

\* C23: a status update whose status is shipped without a trackingNumber,
\* or whose status is not one of ORDER_STATUS, is answered 400 before
\* updateOrderStatus runs: no Order is changed or loaded for update and no
\* email is sent.
C23_InvalidStatusUpdateRejected ==
  [][\A id \in OrderIdInputs, body \in StatusBodies :
       ( /\ \/ body.status = "shipped" /\ body.trackingNumber = "none"
            \/ body.status \notin ORDER_STATUS
         /\ putUpdateStatus("admin", id, body) )
       => /\ resp' = [kind |-> "updateOrderStatus", code |-> 400, totalAmount |-> 0]
          /\ OnlyAnswered]_vars

\* A status update was just refused while a paid Order, not yet shipped
\* and with no shipping email, was stored.
C23_Witness ==
  /\ resp.kind = "updateOrderStatus" /\ resp.code = 400
  /\ \E i \in Orders :
       /\ orders[i].status = "confirmed"
       /\ orders[i].shipping.trackingNumber = "none"
       /\ mail[i].shippingUpdate = 0

\* C24: a webhook whose event handler fails, its lookup or its save
\* throwing, is still answered 200; no Order is changed, and no email is
\* sent for the transition that was not saved.
C24_HandlerFailureAcknowledged ==
  [][/\ \A layout \in Layouts, content \in WebhookContents :
          handleEventLookupFailed([layout |-> layout, content |-> content],
                                  WebhookDigest(Compact(content)))
          => /\ resp' = [kind |-> "webhook", code |-> 200, totalAmount |-> 0]
             /\ OnlyAnswered
     /\ \A r \in inflight :
          handleEventSaveFailed(r)
          => /\ resp' = [kind |-> "webhook", code |-> 200, totalAmount |-> 0]
             /\ orders' = orders
             /\ mail' = mail
             /\ r \notin inflight']_vars

\* A payment.captured handler just failed on an Order that a verification
\* had paid: the webhook was answered 200, the Order has no webhook note
\* and the only payment-success email is the verification's.
C24_Witness ==
  /\ log = "Handle payment captured error"
  /\ resp = [kind |-> "webhook", code |-> 200, totalAmount |-> 0]
  /\ inflight = {}
  /\ \E i \in Orders :
       /\ orders[i].paymentStatus = "success"
       /\ orders[i].adminNotes = <<>>
       /\ mail[i].paymentSuccess = 1

\* C25: a status update or a refund request that carries no valid admin
\* token is answered 401 or 403, loads no Order for update, changes no
\* Order, sends no email and makes no gateway call.
C25_AdminTokenRequired ==
  [][/\ \A t \in {"none", "customer"}, id \in OrderIdInputs, body \in StatusBodies :
          putUpdateStatus(t, id, body)
          => /\ resp'.kind = "updateOrderStatus" /\ resp'.code \in {401, 403}
             /\ OnlyAnswered
     /\ \A t \in {"none", "customer"}, pid \in PaymentIds,
           amt \in RefundAmountInputs, up \in BOOLEAN :
          postRefund(t, pid, amt, up)
          => /\ resp'.kind = "refundPayment" /\ resp'.code \in {401, 403}
             /\ gateway' = gateway
             /\ OnlyAnswered]_vars

\* C26: every stored Order whose paymentStatus is success or refunded has
\* a razorpayPaymentId.
C26_PaidHasPaymentId ==
  \A i \in Orders :
    orders[i].paymentStatus \in {"success", "refunded"} =>
      orders[i].razorpayPaymentId # "none"

\* The refunds the gateway created for payment pid.
CreatedRefunds(pid) ==
  {k \in DOMAIN gateway.refunds :
     gateway.refunds[k].created /\ gateway.refunds[k].paymentId = pid}

\* C27: the gateway has created at most one refund for any one payment,
\* hence for any one Order, whatever the interleaving of refund requests.
C27_OneRefundPerOrder ==
  \A pid \in PaymentIds : Cardinality(CreatedRefunds(pid)) <= 1

\* C28: while the latest response is the 201 of a createOrder, the Order
\* it stored has the totalAmount of the response, and the gateway was
\* asked to charge that many rupees (100 times as many paise).
C28_OneTotal ==
  (resp.kind = "createOrder" /\ resp.code = 201) =>
    /\ orders[Len(orders)].totalAmount = resp.totalAmount
    /\ gateway.orderAmount = 100 * orders[Len(orders)].totalAmount

\* C29: the save of a status update leaves every other Order as it is and,
\* of its own Order, changes nothing but status, shipping and adminNotes,
\* the notes growing by the one note of the request if it gave notes; and
\* the shipping sub-record of an Order changes in no other step.
C29_StatusUpdateFrame ==
  [][\A i \in Orders :
       /\ \A r \in inflight :
            updateOrderStatusSaved(r) =>
              /\ i # r.id => orders'[i] = orders[i]
              /\ orders'[i] = [orders[i] EXCEPT !.status = orders'[i].status,
                                                !.shipping = orders'[i].shipping,
                                                !.adminNotes = orders'[i].adminNotes]
              /\ i = r.id =>
                   Len(orders'[i].adminNotes) - Len(orders[i].adminNotes)
                     = Len(r.doc.adminNotes) - Len(r.loaded.adminNotes)
              /\ Len(r.doc.adminNotes) - Len(r.loaded.adminNotes) \in {0, 1}
       /\ orders'[i].shipping # orders[i].shipping =>
            \E r \in inflight \ inflight' : r.kind = "updateOrderStatus" /\ r.id = i]_vars

\* A status update to shipped was just saved and answered on an Order that
\* a verification had paid while the update was waiting for its save: the
\* payment fields are the verification's, the shipping fields the update's.
C29_Witness ==
  /\ resp = [kind |-> "updateOrderStatus", code |-> 200, totalAmount |-> 0]
  /\ \E i \in Orders :
       /\ orders[i].status = "shipped"
       /\ orders[i].shipping.trackingNumber = "TRK"
       /\ orders[i].paymentStatus = "success"
       /\ orders[i].razorpayPaymentId # "none"
       /\ orders[i].totalAmount = 1261
       /\ mail[i].shippingUpdate = 1

\* C30: every status and paymentStatus value that a request has set on its
\* copy of an Order for saving is in the enum of that path in
\* models/Order.js.
C30_WrittenValuesInSchema ==
  \A r \in inflight :
    /\ r.doc.status # r.loaded.status => r.doc.status \in statusEnum
    /\ r.doc.paymentStatus # r.loaded.paymentStatus =>
         r.doc.paymentStatus \in paymentStatusEnum
====
